---- MODULE Spec2Model ----
(***************************************************************************)
(* Model of the fixed-size thread pool of src/src/lib.rs: ThreadPool::new, *)
(* Worker::new (the receive-execute loop of every worker thread),          *)
(* ThreadPool::execute and Drop for ThreadPool.                            *)
(*                                                                         *)
(* The std::sync::mpsc channel is modelled by its documented behaviour: an *)
(* unbounded FIFO; recv blocks while the buffer is empty and a Sender      *)
(* exists, returns Err once the buffer is empty and every Sender is gone;  *)
(* send returns Err once the Receiver is gone.  The Receiver lives in an   *)
(* Arc owned by the worker closures (and by ThreadPool::new until it       *)
(* returns), so it is dropped when the last worker thread ends.            *)
(***************************************************************************)
EXTENDS Integers, Sequences, FiniteSets, TLC

\* Bounds of the model.
MaxWorkers == 2
MaxTasks == 2

VARIABLES
    size,        \* the argument of ThreadPool::new
    newPc,       \* position inside ThreadPool::new
    sender,      \* Option<mpsc::Sender<Job>>: "absent" (no channel yet), "Some", "None"
    receiver,    \* Arc<Mutex<mpsc::Receiver<Job>>>: "absent", "alive", "dropped"
    queue,       \* the channel's buffer: sequence of task ids
    workers,     \* Vec<Worker>: sequence of [id, thread]
    threadPc,    \* position of each worker thread
    message,     \* each worker thread's local `message`
    lockHolders, \* the threads holding the MutexGuard of the receiver
    poisoned,    \* the Mutex's poison flag
    dropPc,      \* position inside Drop::drop
    dropIdx,     \* index into workers of the loop of Drop::drop
    kindOf,      \* per submitted task: how its closure behaves
    status,      \* per submitted task: queued, running, done, failed, dropped
    runs,        \* per submitted task: how many times job() was invoked
    ranBy,       \* per submitted task: the workers that invoked it
    deqLog,      \* task ids in the order recv returned them
    lastExec,    \* outcome of the latest call of execute
    pendingAtDrop \* whether jobs were in the buffer when drop closed the sender

vars == <<size, newPc, sender, receiver, queue, workers, threadPc, message,
          lockHolders, poisoned, dropPc, dropIdx, kindOf, status, runs, ranBy,
          deqLog, lastExec, pendingAtDrop>>

poolVars == <<size, newPc, workers>>
chanVars == <<sender, receiver, queue>>
threadVars == <<threadPc, message, lockHolders, poisoned>>
dropVars == <<dropPc, dropIdx, pendingAtDrop>>
taskVars == <<kindOf, status, runs, ranBy, deqLog>>

Ids == 0 .. (MaxWorkers - 1)

\* What a submitted closure does when invoked: return, panic, or never return.
Kinds == {"ok", "fail", "hang"}

NoMessage == [tag |-> "None", job |-> 0]
OkMessage(t) == [tag |-> "Ok", job |-> t]
ErrMessage == [tag |-> "Err", job |-> 0]

\* A spawned thread that has not ended yet.
Live(pc) == pc \in {"lock", "recv", "match", "run"}

Ended(pc) == pc \in {"exited", "panicked"}

\* The Arc's last clone goes away with the last worker closure.
ReceiverAfter(pcs) ==
    IF \E i \in Ids : Live(pcs[i]) THEN "alive" ELSE "dropped"

\* Dropping the Receiver drops every job still in the buffer.
QueueAfter(pcs, q) == IF ReceiverAfter(pcs) = "alive" THEN q ELSE <<>>

StatusAfter(pcs, st) ==
    IF ReceiverAfter(pcs) = "alive" THEN st
    ELSE [t \in DOMAIN st |-> IF st[t] = "queued" THEN "dropped" ELSE st[t]]

----------------------------------------------------------------------------
Init ==
    /\ size \in 0 .. MaxWorkers
    /\ newPc = "start"
    /\ sender = "absent"
    /\ receiver = "absent"
    /\ queue = <<>>
    /\ workers = <<>>
    /\ threadPc = [i \in Ids |-> "unspawned"]
    /\ message = [i \in Ids |-> NoMessage]
    /\ lockHolders = {}
    /\ poisoned = FALSE
    /\ dropPc = "idle"
    /\ dropIdx = 0
    /\ kindOf = <<>>
    /\ status = <<>>
    /\ runs = <<>>
    /\ ranBy = <<>>
    /\ deqLog = <<>>
    /\ lastExec = "none"
    /\ pendingAtDrop = FALSE

----------------------------------------------------------------------------
\* ThreadPool::new

\* Variant of NewAssert: the assertion accepts every size.
NewAssert_NoCheck ==
    /\ newPc = "start"
    /\ newPc' = "asserted"
    /\ UNCHANGED <<size, workers, chanVars, threadVars, dropVars, taskVars, lastExec>>

\* assert!(size > 0, ...)
NewAssert ==
    /\ newPc = "start"
    /\ newPc' = IF size > 0 THEN "asserted" ELSE "panicked"
    /\ UNCHANGED <<size, workers, chanVars, threadVars, dropVars, taskVars, lastExec>>

\* mpsc::channel(), Arc::new(Mutex::new(receiver)), Vec::with_capacity(size)
NewChannel ==
    /\ newPc = "asserted"
    /\ newPc' = "spawn"
    /\ sender' = "Some"
    /\ receiver' = "alive"
    /\ queue' = <<>>
    /\ workers' = <<>>
    /\ UNCHANGED <<size, threadVars, dropVars, taskVars, lastExec>>

\* Variant of WorkerNew: every worker is given the id 0.
WorkerNew_SameId(id) ==
    /\ threadPc' = [threadPc EXCEPT ![id] = "lock"]
    /\ workers' = Append(workers, [id |-> 0, thread |-> "Some"])

\* Worker::new(id, receiver): thread::spawn of the loop, Worker {id, thread: Some(thread)}
WorkerNew(id) ==
    /\ threadPc' = [threadPc EXCEPT ![id] = "lock"]
    /\ workers' = Append(workers, [id |-> id, thread |-> "Some"])

\* one iteration of `for i in 0..size`
NewSpawn ==
    /\ newPc = "spawn"
    /\ Len(workers) < size
    /\ WorkerNew(Len(workers))
    /\ UNCHANGED <<size, newPc, chanVars, message, lockHolders, poisoned,
                   dropVars, taskVars, lastExec>>

\* ThreadPool { workers, sender: Some(sender) }
NewReturn ==
    /\ newPc = "spawn"
    /\ Len(workers) = size
    /\ newPc' = "returned"
    /\ UNCHANGED <<size, workers, chanVars, threadVars, dropVars, taskVars, lastExec>>

----------------------------------------------------------------------------
\* The worker thread spawned by Worker::new: loop { ... }

SetStatus(t, st) == [status EXCEPT ![t] = st]

\* Variant of Lock: the guard is handed out although another thread holds it.
Lock_NoExclusion(i) ==
    /\ threadPc[i] = "lock"
    /\ IF poisoned
       THEN /\ threadPc' = [threadPc EXCEPT ![i] = "panicked"]
            /\ lockHolders' = lockHolders
       ELSE /\ threadPc' = [threadPc EXCEPT ![i] = "recv"]
            /\ lockHolders' = lockHolders \cup {i}
    /\ receiver' = ReceiverAfter(threadPc')
    /\ queue' = QueueAfter(threadPc', queue)
    /\ status' = StatusAfter(threadPc', status)
    /\ UNCHANGED <<poolVars, sender, message, poisoned, dropVars,
                   kindOf, runs, ranBy, deqLog, lastExec>>

\* receiver.lock().unwrap(): blocks while another thread holds the guard;
\* a poisoned mutex makes unwrap panic.
Lock(i) ==
    /\ threadPc[i] = "lock"
    /\ lockHolders = {}
    /\ IF poisoned
       THEN /\ threadPc' = [threadPc EXCEPT ![i] = "panicked"]
            /\ lockHolders' = lockHolders
       ELSE /\ threadPc' = [threadPc EXCEPT ![i] = "recv"]
            /\ lockHolders' = lockHolders \cup {i}
    /\ receiver' = ReceiverAfter(threadPc')
    /\ queue' = QueueAfter(threadPc', queue)
    /\ status' = StatusAfter(threadPc', status)
    /\ UNCHANGED <<poolVars, sender, message, poisoned, dropVars,
                   kindOf, runs, ranBy, deqLog, lastExec>>

\* Variant of RecvOk: the guard is not a temporary of the let statement but
\* lives on while the job is matched and run.
RecvOk_KeepGuard(i) ==
    /\ threadPc[i] = "recv"
    /\ queue # <<>>
    /\ message' = [message EXCEPT ![i] = OkMessage(Head(queue))]
    /\ queue' = Tail(queue)
    /\ deqLog' = Append(deqLog, Head(queue))
    /\ status' = SetStatus(Head(queue), "received")
    /\ lockHolders' = lockHolders
    /\ threadPc' = [threadPc EXCEPT ![i] = "match"]
    /\ UNCHANGED <<poolVars, sender, receiver, poisoned, dropVars,
                   kindOf, runs, ranBy, lastExec>>

\* Variant of RecvOk: the job is read but left in the buffer.
RecvOk_NoPop(i) ==
    /\ threadPc[i] = "recv"
    /\ queue # <<>>
    /\ message' = [message EXCEPT ![i] = OkMessage(Head(queue))]
    /\ queue' = queue
    /\ deqLog' = Append(deqLog, Head(queue))
    /\ status' = SetStatus(Head(queue), "received")
    /\ lockHolders' = lockHolders \ {i}
    /\ threadPc' = [threadPc EXCEPT ![i] = "match"]
    /\ UNCHANGED <<poolVars, sender, receiver, poisoned, dropVars,
                   kindOf, runs, ranBy, lastExec>>

\* Variant of RecvOk: the newest job of the buffer is returned.
RecvOk_Lifo(i) ==
    /\ threadPc[i] = "recv"
    /\ queue # <<>>
    /\ message' = [message EXCEPT ![i] = OkMessage(queue[Len(queue)])]
    /\ queue' = SubSeq(queue, 1, Len(queue) - 1)
    /\ deqLog' = Append(deqLog, queue[Len(queue)])
    /\ status' = SetStatus(queue[Len(queue)], "received")
    /\ lockHolders' = lockHolders \ {i}
    /\ threadPc' = [threadPc EXCEPT ![i] = "match"]
    /\ UNCHANGED <<poolVars, sender, receiver, poisoned, dropVars,
                   kindOf, runs, ranBy, lastExec>>

\* .recv() returns Ok(job), the oldest job of the buffer, and the statement
\* `let message = ...;` ends: the temporary MutexGuard is dropped
RecvOk(i) ==
    /\ threadPc[i] = "recv"
    /\ queue # <<>>
    /\ message' = [message EXCEPT ![i] = OkMessage(Head(queue))]
    /\ queue' = Tail(queue)
    /\ deqLog' = Append(deqLog, Head(queue))
    /\ status' = SetStatus(Head(queue), "received")
    /\ lockHolders' = lockHolders \ {i}
    /\ threadPc' = [threadPc EXCEPT ![i] = "match"]
    /\ UNCHANGED <<poolVars, sender, receiver, poisoned, dropVars,
                   kindOf, runs, ranBy, lastExec>>

\* .recv() returns Err, the buffer being empty and the Sender gone, and the
\* statement ends: the temporary MutexGuard is dropped
RecvErr(i) ==
    /\ threadPc[i] = "recv"
    /\ queue = <<>>
    /\ sender = "None"
    /\ message' = [message EXCEPT ![i] = ErrMessage]
    /\ lockHolders' = lockHolders \ {i}
    /\ threadPc' = [threadPc EXCEPT ![i] = "match"]
    /\ UNCHANGED <<poolVars, chanVars, poisoned, dropVars, taskVars, lastExec>>

\* match message { Ok(job) => { println!; job() ...: the job is invoked
MatchOk(i) ==
    /\ threadPc[i] = "match"
    /\ message[i].tag = "Ok"
    /\ threadPc' = [threadPc EXCEPT ![i] = "run"]
    /\ status' = SetStatus(message[i].job, "running")
    /\ runs' = [runs EXCEPT ![message[i].job] = @ + 1]
    /\ ranBy' = [ranBy EXCEPT ![message[i].job] = @ \cup {i}]
    /\ UNCHANGED <<poolVars, chanVars, message, lockHolders, poisoned, dropVars,
                   kindOf, deqLog, lastExec>>

\* match message { Err(_) => { println!; break } }: the thread ends, and
\* its closure drops its clone of the Arc
MatchErr(i) ==
    /\ threadPc[i] = "match"
    /\ message[i].tag = "Err"
    /\ threadPc' = [threadPc EXCEPT ![i] = "exited"]
    /\ message' = [message EXCEPT ![i] = NoMessage]
    /\ receiver' = ReceiverAfter(threadPc')
    /\ queue' = QueueAfter(threadPc', queue)
    /\ status' = StatusAfter(threadPc', status)
    /\ UNCHANGED <<poolVars, sender, lockHolders, poisoned, dropVars,
                   kindOf, runs, ranBy, deqLog, lastExec>>

\* job() returns: next iteration of the loop
JobReturn(i) ==
    /\ threadPc[i] = "run"
    /\ kindOf[message[i].job] = "ok"
    /\ status' = SetStatus(message[i].job, "done")
    /\ message' = [message EXCEPT ![i] = NoMessage]
    /\ threadPc' = [threadPc EXCEPT ![i] = "lock"]
    /\ UNCHANGED <<poolVars, chanVars, lockHolders, poisoned, dropVars,
                   kindOf, runs, ranBy, deqLog, lastExec>>

\* Variant of JobPanic: the panic is caught in the loop (catch_unwind) and
\* the worker goes on to its next iteration.
JobPanic_Caught(i) ==
    /\ threadPc[i] = "run"
    /\ kindOf[message[i].job] = "fail"
    /\ threadPc' = [threadPc EXCEPT ![i] = "lock"]
    /\ message' = [message EXCEPT ![i] = NoMessage]
    /\ status' = SetStatus(message[i].job, "failed")
    /\ UNCHANGED <<poolVars, chanVars, lockHolders, poisoned, dropVars,
                   kindOf, runs, ranBy, deqLog, lastExec>>

\* job() panics: nothing in the loop catches it, the thread unwinds and
\* ends; a guard held during the unwinding would poison the mutex
JobPanic(i) ==
    /\ threadPc[i] = "run"
    /\ kindOf[message[i].job] = "fail"
    /\ threadPc' = [threadPc EXCEPT ![i] = "panicked"]
    /\ message' = [message EXCEPT ![i] = NoMessage]
    /\ poisoned' = (poisoned \/ i \in lockHolders)
    /\ lockHolders' = lockHolders \ {i}
    /\ receiver' = ReceiverAfter(threadPc')
    /\ queue' = QueueAfter(threadPc', queue)
    /\ status' = StatusAfter(threadPc', SetStatus(message[i].job, "failed"))
    /\ UNCHANGED <<poolVars, sender, dropVars, kindOf, runs, ranBy, deqLog, lastExec>>

----------------------------------------------------------------------------
\* ThreadPool::execute

\* The pool value exists: new has returned it and drop has not finished.
\* execute is modelled as callable in every such state, so that both of its
\* unwrap calls are exercised: the borrow rules keep safe callers from
\* reaching it once drop runs, and the Option in the sender field is what
\* answers a caller that gets there all the same.
PoolExists == newPc = "returned" /\ dropPc \in {"idle", "loop", "join"}

\* Variant of Execute: the channel is bounded (sync_channel), so send waits
\* while the buffer is full.
Execute_Bounded(k) ==
    /\ PoolExists
    /\ IF sender = "None"
       THEN /\ lastExec' = "panicNone"
            /\ UNCHANGED taskVars
            /\ UNCHANGED queue
       ELSE IF receiver # "alive"
       THEN /\ lastExec' = "panicSend"
            /\ UNCHANGED taskVars
            /\ UNCHANGED queue
       ELSE /\ Len(kindOf) < MaxTasks
            /\ queue = <<>>
            /\ lastExec' = "ok"
            /\ queue' = Append(queue, Len(kindOf) + 1)
            /\ kindOf' = Append(kindOf, k)
            /\ status' = Append(status, "queued")
            /\ runs' = Append(runs, 0)
            /\ ranBy' = Append(ranBy, {})
            /\ UNCHANGED deqLog
    /\ UNCHANGED <<poolVars, sender, receiver, threadVars, dropVars>>

\* Variant of Execute: before sending, the loop of every worker whose thread
\* has panicked is started again.
Execute_Respawn(k) ==
    /\ PoolExists
    /\ IF sender = "None"
       THEN /\ lastExec' = "panicNone"
            /\ UNCHANGED taskVars
            /\ UNCHANGED <<queue, threadPc>>
       ELSE IF receiver # "alive"
       THEN /\ lastExec' = "panicSend"
            /\ UNCHANGED taskVars
            /\ UNCHANGED <<queue, threadPc>>
       ELSE /\ Len(kindOf) < MaxTasks
            /\ threadPc' = [i \in Ids |->
                             IF threadPc[i] = "panicked" THEN "lock" ELSE threadPc[i]]
            /\ lastExec' = "ok"
            /\ queue' = Append(queue, Len(kindOf) + 1)
            /\ kindOf' = Append(kindOf, k)
            /\ status' = Append(status, "queued")
            /\ runs' = Append(runs, 0)
            /\ ranBy' = Append(ranBy, {})
            /\ UNCHANGED deqLog
    /\ UNCHANGED <<poolVars, sender, receiver, message, lockHolders, poisoned, dropVars>>

\* Variant of Execute: a missing sender is not noticed and the job is
\* enqueued all the same.
Execute_NoNoneCheck(k) ==
    /\ PoolExists
    /\ IF receiver # "alive"
       THEN /\ lastExec' = "panicSend"
            /\ UNCHANGED taskVars
            /\ UNCHANGED queue
       ELSE /\ Len(kindOf) < MaxTasks
            /\ lastExec' = "ok"
            /\ queue' = Append(queue, Len(kindOf) + 1)
            /\ kindOf' = Append(kindOf, k)
            /\ status' = Append(status, "queued")
            /\ runs' = Append(runs, 0)
            /\ ranBy' = Append(ranBy, {})
            /\ UNCHANGED deqLog
    /\ UNCHANGED <<poolVars, sender, receiver, threadVars, dropVars>>

\* Variant of Execute: a missing sender is replaced by a fresh one
\* (get_or_insert instead of as_ref().unwrap()).
Execute_Reopen(k) ==
    /\ PoolExists
    /\ sender' = "Some"
    /\ IF receiver # "alive"
       THEN /\ lastExec' = "panicSend"
            /\ UNCHANGED taskVars
            /\ UNCHANGED queue
       ELSE /\ Len(kindOf) < MaxTasks
            /\ lastExec' = "ok"
            /\ queue' = Append(queue, Len(kindOf) + 1)
            /\ kindOf' = Append(kindOf, k)
            /\ status' = Append(status, "queued")
            /\ runs' = Append(runs, 0)
            /\ ranBy' = Append(ranBy, {})
            /\ UNCHANGED deqLog
    /\ UNCHANGED <<poolVars, receiver, threadVars, dropVars>>

\* self.sender.as_ref().unwrap().send(job).unwrap(), for a closure of kind k
Execute(k) ==
    /\ PoolExists
    /\ IF sender = "None"
       THEN \* Option::unwrap on None panics
            /\ lastExec' = "panicNone"
            /\ UNCHANGED taskVars
            /\ UNCHANGED queue
       ELSE IF receiver # "alive"
       THEN \* send returns Err(SendError(job)), Result::unwrap panics
            /\ lastExec' = "panicSend"
            /\ UNCHANGED taskVars
            /\ UNCHANGED queue
       ELSE /\ Len(kindOf) < MaxTasks
            /\ lastExec' = "ok"
            /\ queue' = Append(queue, Len(kindOf) + 1)
            /\ kindOf' = Append(kindOf, k)
            /\ status' = Append(status, "queued")
            /\ runs' = Append(runs, 0)
            /\ ranBy' = Append(ranBy, {})
            /\ UNCHANGED deqLog
    /\ UNCHANGED <<poolVars, sender, receiver, threadVars, dropVars>>

----------------------------------------------------------------------------
\* Drop for ThreadPool

\* Variant of DropSender: the sender is left in place (no take, no drop).
DropSender_KeepOpen ==
    /\ newPc = "returned"
    /\ dropPc = "idle"
    /\ sender' = sender
    /\ dropPc' = "loop"
    /\ dropIdx' = 1
    /\ pendingAtDrop' = (queue # <<>>)
    /\ UNCHANGED <<poolVars, receiver, queue, threadVars, taskVars, lastExec>>

\* Variant of DropSender: the loop over the workers starts at the last one.
DropSender_FromLast ==
    /\ newPc = "returned"
    /\ dropPc = "idle"
    /\ sender' = "None"
    /\ dropPc' = "loop"
    /\ dropIdx' = Len(workers)
    /\ pendingAtDrop' = (queue # <<>>)
    /\ UNCHANGED <<poolVars, receiver, queue, threadVars, taskVars, lastExec>>

\* drop(self.sender.take())
DropSender ==
    /\ newPc = "returned"
    /\ dropPc = "idle"
    /\ sender' = "None"
    /\ dropPc' = "loop"
    /\ dropIdx' = 1
    /\ pendingAtDrop' = (queue # <<>>)
    /\ UNCHANGED <<poolVars, receiver, queue, threadVars, taskVars, lastExec>>

\* Variant of DropTake: the handle is taken and dropped without a join.
DropTake_Detach ==
    /\ dropPc = "loop"
    /\ dropIdx <= Len(workers)
    /\ workers' = [workers EXCEPT ![dropIdx].thread = "None"]
    /\ dropIdx' = dropIdx + 1
    /\ UNCHANGED <<size, newPc, chanVars, threadVars, dropPc, pendingAtDrop,
                   taskVars, lastExec>>

\* for worker in &mut self.workers { println!; if let Some(thread) = worker.thread.take()
DropTake ==
    /\ dropPc = "loop"
    /\ dropIdx <= Len(workers)
    /\ IF workers[dropIdx].thread = "Some"
       THEN /\ workers' = [workers EXCEPT ![dropIdx].thread = "None"]
            /\ dropPc' = "join"
            /\ UNCHANGED dropIdx
       ELSE /\ dropIdx' = dropIdx + 1
            /\ UNCHANGED <<workers, dropPc>>
    /\ UNCHANGED <<size, newPc, chanVars, threadVars, pendingAtDrop, taskVars, lastExec>>

\* Variant of DropJoin: the result of join is discarded instead of unwrapped.
DropJoin_IgnoreErr ==
    /\ dropPc = "join"
    /\ Ended(threadPc[workers[dropIdx].id])
    /\ dropIdx' = dropIdx + 1
    /\ dropPc' = "loop"
    /\ UNCHANGED <<poolVars, chanVars, threadVars, pendingAtDrop, taskVars, lastExec>>

\* Variant of DropJoin: the join does not wait for the thread to end.
DropJoin_NoWait ==
    /\ dropPc = "join"
    /\ IF threadPc[workers[dropIdx].id] # "panicked"
       THEN /\ dropIdx' = dropIdx + 1
            /\ dropPc' = "loop"
       ELSE /\ dropPc' = "panicked"
            /\ UNCHANGED dropIdx
    /\ UNCHANGED <<poolVars, chanVars, threadVars, pendingAtDrop, taskVars, lastExec>>

\* thread.join().unwrap(): blocks until the thread has ended; Err (and so a
\* panic of drop) when the thread panicked
DropJoin ==
    /\ dropPc = "join"
    /\ Ended(threadPc[workers[dropIdx].id])
    /\ IF threadPc[workers[dropIdx].id] = "exited"
       THEN /\ dropIdx' = dropIdx + 1
            /\ dropPc' = "loop"
       ELSE /\ dropPc' = "panicked"
            /\ UNCHANGED dropIdx
    /\ UNCHANGED <<poolVars, chanVars, threadVars, pendingAtDrop, taskVars, lastExec>>

\* the loop is over: drop returns
DropReturn ==
    /\ dropPc = "loop"
    /\ dropIdx > Len(workers)
    /\ dropPc' = "returned"
    /\ UNCHANGED <<poolVars, chanVars, threadVars, dropIdx, pendingAtDrop, taskVars, lastExec>>

----------------------------------------------------------------------------
Worker(i) ==
    \/ Lock(i)
    \/ RecvOk(i)
    \/ RecvErr(i)
    \/ MatchOk(i)
    \/ MatchErr(i)
    \/ JobReturn(i)
    \/ JobPanic(i)

Drop ==
    \/ DropSender
    \/ DropTake
    \/ DropJoin
    \/ DropReturn

Next ==
    \/ NewAssert
    \/ NewChannel
    \/ NewSpawn
    \/ NewReturn
    \/ \E k \in Kinds : Execute(k)
    \/ \E i \in Ids : Worker(i)
    \/ Drop

Spec == Init /\ [][Next]_vars

\* The threads are scheduled fairly, and drop, once begun, keeps running.
FairSpec ==
    /\ Spec
    /\ \A i \in Ids : WF_vars(Worker(i))
    /\ WF_vars(DropTake \/ DropJoin \/ DropReturn)

TypeOK ==
    /\ size \in 0 .. MaxWorkers
    /\ newPc \in {"start", "asserted", "spawn", "returned", "panicked"}
    /\ sender \in {"absent", "Some", "None"}
    /\ receiver \in {"absent", "alive", "dropped"}
    /\ lockHolders \subseteq Ids
    /\ poisoned \in BOOLEAN
    /\ dropPc \in {"idle", "loop", "join", "returned", "panicked"}
    /\ pendingAtDrop \in BOOLEAN
    /\ Len(kindOf) <= MaxTasks
    /\ Len(status) = Len(kindOf) /\ Len(runs) = Len(kindOf) /\ Len(ranBy) = Len(kindOf)
    /\ \A t \in DOMAIN status :
          status[t] \in {"queued", "received", "running", "done", "failed", "dropped"}

----------------------------------------------------------------------------
\* Derived notions used by the properties below.

Tasks == DOMAIN kindOf

\* The pool is alive: new has returned it and teardown has not begun.
PoolAlive == newPc = "returned" /\ dropPc = "idle"

\* Drop::drop has returned normally.
DropReturned == dropPc = "returned"

WorkerIds == [n \in DOMAIN workers |-> workers[n].id]

----------------------------------------------------------------------------
\* C1: every submitted task is received by exactly one worker and invoked
\* exactly once: no task is received twice, invoked twice, invoked by two
\* workers or held by two workers at once; and once teardown has returned
\* every one of the k submitted tasks has been invoked exactly once.
C1_ExactlyOnce ==
    /\ \A t \in Tasks : runs[t] <= 1 /\ Cardinality(ranBy[t]) <= 1
    /\ \A a, b \in DOMAIN deqLog : a # b => deqLog[a] # deqLog[b]
    /\ \A i, j \in Ids :
          (i # j /\ message[i].tag = "Ok" /\ message[j].tag = "Ok")
              => message[i].job # message[j].job
    /\ DropReturned =>
          \A t \in Tasks : runs[t] = 1 /\ Cardinality(ranBy[t]) = 1

\* Teardown has returned after two tasks ran on two different workers.
C1_Witness ==
    /\ DropReturned
    /\ \E t1, t2 \in Tasks : ranBy[t1] # {} /\ ranBy[t2] # {} /\ ranBy[t1] # ranBy[t2]

\* C2: in the state where drop has returned, every submitted task has
\* completed: the buffer is empty, no task is queued, received or running,
\* and no worker holds a job; this includes the tasks that were still in the
\* buffer when teardown began.
C2_DrainBeforeExit ==
    DropReturned =>
        /\ queue = <<>>
        /\ \A t \in Tasks : status[t] = "done"
        /\ \A i \in Ids : message[i].tag # "Ok" /\ threadPc[i] # "run"

\* Drop has returned and some task was still in the buffer when it began.
C2_Witness == DropReturned /\ pendingAtDrop

\* C3: while the pool is alive the producer end is open and a call of
\* execute succeeds and enqueues the task: send cannot fail, no call of
\* execute has panicked, and no submitted task is discarded unexecuted.
C3_SubmissionSucceeds ==
    PoolAlive =>
        /\ sender = "Some"
        /\ receiver = "alive"
        /\ lastExec \in {"none", "ok"}
        /\ \A t \in Tasks : status[t] # "dropped"

\* C4: ThreadPool::new(0) panics at the assertion, before a channel exists
\* and before any worker is created or any thread spawned.
C4_ZeroSizeRejected ==
    (size = 0 /\ newPc # "start") =>
        /\ newPc = "panicked"
        /\ sender = "absent"
        /\ receiver = "absent"
        /\ workers = <<>>
        /\ \A i \in Ids : threadPc[i] = "unspawned"
        /\ queue = <<>>
        /\ dropPc = "idle"

\* new(0) has been called and has panicked.
C4_Witness == size = 0 /\ newPc = "panicked"

\* C5 (state part): new(n) with n >= 1 never panics, and the pool it returns
\* has exactly n workers with the ids 0..n-1 in creation order; when it is
\* returned every worker has a live thread in its receive loop, all on the
\* one shared receiver.
C5_WorkersAtReturn ==
    /\ size >= 1 => newPc # "panicked"
    /\ newPc = "returned" =>
          /\ Len(workers) = size
          /\ \A n \in DOMAIN workers : workers[n].id = n - 1
          /\ \A n \in DOMAIN workers : threadPc[workers[n].id] # "unspawned"
          /\ \A i \in Ids : threadPc[i] # "unspawned" => i < size
    /\ (PoolAlive /\ Tasks = {}) =>
          /\ \A n \in DOMAIN workers : threadPc[workers[n].id] \in {"lock", "recv"}
          /\ receiver = "alive"

\* C5: the state part holds always, and from the return of new on the number
\* of workers and their ids never change.
C5_FixedWorkers ==
    /\ []C5_WorkersAtReturn
    /\ [][newPc = "returned" => WorkerIds' = WorkerIds]_vars

\* new(n) has returned a pool of at least two workers that has since run a task.
C5_Witness ==
    /\ newPc = "returned"
    /\ size >= 2
    /\ Len(workers) = size
    /\ \E t \in Tasks : status[t] = "done"

\* C6: tasks are received in submission order (the receive log is the
\* sequence 1, 2, ... of the task ids), and whenever two tasks are invoked by
\* the same worker the earlier one has completed before the later one is
\* invoked.
C6_SubmissionOrder ==
    /\ \A n \in DOMAIN deqLog : deqLog[n] = n
    /\ \A t1, t2 \in Tasks :
          (t1 < t2 /\ ranBy[t2] # {} /\ ranBy[t1] \cap ranBy[t2] # {})
              => status[t1] = "done"

\* Two tasks have been invoked by the same worker of a pool of two.
C6_Witness ==
    /\ size >= 2
    /\ \E t1, t2 \in Tasks : t1 < t2 /\ ranBy[t2] # {} /\ ranBy[t1] = ranBy[t2]

\* No submitted closure panics or runs forever.
AllTasksReturn == \A t \in Tasks : kindOf[t] = "ok"

\* No submitted closure runs forever.
AllTasksEnd == \A t \in Tasks : kindOf[t] # "hang"

\* C7: under fair scheduling, once drop has started and every submitted task
\* returns, drop eventually returns (every worker sees the closed, drained
\* channel and exits); if tasks may panic but none runs forever, drop still
\* ends, by returning or by panicking at a join.
C7_TeardownReturns ==
    /\ (dropPc # "idle" /\ AllTasksReturn) ~> DropReturned
    /\ (dropPc # "idle" /\ AllTasksEnd) ~> (dropPc \in {"returned", "panicked"})

\* A pool of two workers was torn down with no task ever submitted.
C7_Witness == DropReturned /\ size >= 2 /\ Tasks = {} /\ lastExec = "none"

\* C8: when drop has returned the producer end is closed and every one of
\* the N workers has left its loop and has been joined: no worker thread is
\* still running.
C8_AllWorkersJoined ==
    DropReturned =>
        /\ sender = "None"
        /\ Len(workers) = size
        /\ dropIdx > Len(workers)
        /\ \A n \in DOMAIN workers :
              /\ workers[n].thread = "None"
              /\ threadPc[workers[n].id] = "exited"
        /\ \A i \in Ids : ~Live(threadPc[i])
        /\ lockHolders = {}

\* Drop has returned for a pool of two workers that ran a task.
C8_Witness == DropReturned /\ size >= 2 /\ \E t \in Tasks : runs[t] = 1

\* C9: once the sender has been taken, a call of execute panics without
\* enqueuing: no step adds a task or a buffer entry while the sender is
\* None, the only outcome of a call is the panic of unwrap on None, and the
\* step that records that panic changes nothing else.
C9_ClosedSubmissionFails ==
    [][ /\ sender = "None" =>
              /\ kindOf' = kindOf
              /\ Len(queue') <= Len(queue)
              /\ lastExec' \in {lastExec, "panicNone"}
        /\ (lastExec' # lastExec /\ lastExec' = "panicNone") =>
              /\ sender = "None"
              /\ UNCHANGED <<poolVars, chanVars, threadVars, dropVars, taskVars>>
      ]_vars

\* execute was called after drop had taken the sender, and panicked.
C9_Witness == lastExec = "panicNone" /\ sender = "None"

\* C10 (state part): the producer end is open exactly while the pool is
\* Active, that is from its creation until teardown begins.
C10_OpenIffActive ==
    /\ sender = "Some" <=> (newPc \in {"spawn", "returned"} /\ dropPc = "idle")
    /\ sender = "None" <=> dropPc # "idle"

\* C10: the state part holds always; the sender is never reopened once
\* closed, and the only step that closes it is the first step of drop.
C10_OneWayShutdown ==
    /\ []C10_OpenIffActive
    /\ [][ /\ sender = "None" => sender' = "None"
           /\ (sender = "Some" /\ sender' # "Some") =>
                 (sender' = "None" /\ dropPc = "idle" /\ dropPc' = "loop")
         ]_vars

\* The sender is closed while a worker is still running a submitted task.
C10_Witness == sender = "None" /\ \E i \in Ids : threadPc[i] = "run"

----------------------------------------------------------------------------
\* The worker threads that have been spawned.
Spawned == {i \in Ids : threadPc[i] # "unspawned"}

\* The spawned threads that have not ended.
LiveWorkers == {i \in Ids : Live(threadPc[i])}

\* A live worker that is not holding a job: it waits for the lock or in recv.
Idle(i) == threadPc[i] \in {"lock", "recv"}

\* C11: a worker thread ends only from the receive step, having received
\* Err on a closed and empty channel: every step that ends a thread starts
\* with that thread at its match on Err, the sender taken and the buffer
\* empty; so no thread ends while the pool is Active or a job is queued, and
\* a thread that runs a job is not ended by teardown.
C11_SoleExit ==
    [][\A i \in Ids :
          (Live(threadPc[i]) /\ ~Live(threadPc'[i])) =>
              /\ threadPc[i] = "match"
              /\ message[i].tag = "Err"
              /\ threadPc'[i] = "exited"
              /\ sender = "None"
              /\ queue = <<>>
              /\ dropPc # "idle"
      ]_vars

\* C12: the consumer end is used under mutual exclusion: at most one worker
\* holds the guard, the holder being the one worker inside recv, and every
\* other worker that wants to receive waits at lock(); a single submission
\* to an Active pool takes at most one worker out of waiting.
C12_MutualExclusion ==
    /\ Cardinality(lockHolders) <= 1
    /\ \A i \in Ids : i \in lockHolders <=> threadPc[i] = "recv"
    /\ \A i \in Ids : (Idle(i) /\ i \notin lockHolders) => threadPc[i] = "lock"
    /\ (PoolAlive /\ Len(kindOf) <= 1) =>
          Cardinality({i \in Spawned : ~Idle(i)}) <= Len(kindOf)

\* One task was submitted to a pool of two: one worker runs it, the other
\* holds the guard in recv or waits for it.
C12_Witness ==
    /\ PoolAlive
    /\ size >= 2
    /\ Len(kindOf) = 1
    /\ \E i, j \in Spawned : i # j /\ threadPc[i] = "run" /\ Idle(j)

\* C13 (state part): no handle is taken while the sender is open; the
\* workers before the loop's index have been joined (handle taken, thread
\* exited), those after it still have their handle, and the one at the index
\* has lost its handle exactly while its join runs (or has panicked).
C13_JoinedPrefix ==
    /\ dropPc # "idle" => sender = "None"
    /\ \A n \in DOMAIN workers :
          /\ workers[n].thread = "None" => (sender = "None" /\ workers[n].id = n - 1)
          /\ n < dropIdx =>
                (workers[n].thread = "None" /\ threadPc[workers[n].id] = "exited")
          /\ n > dropIdx => workers[n].thread = "Some"
          /\ n = dropIdx =>
                (workers[n].thread = "None" <=> dropPc \in {"join", "panicked"})

\* C13: teardown closes the sender before any join and then joins the
\* workers one at a time in increasing id order: the state part holds
\* always, the loop's index only moves to the next worker, and a handle once
\* taken is never there again (no worker is joined twice).
C13_TeardownOrder ==
    /\ []C13_JoinedPrefix
    /\ [][ /\ dropIdx' \in {dropIdx, dropIdx + 1}
           /\ newPc = "returned" =>
                 \A n \in DOMAIN workers :
                     workers[n].thread = "None" => workers'[n].thread = "None"
         ]_vars

\* Worker 0 has been joined and the join of worker 1 is running.
C13_Witness ==
    /\ dropPc = "join"
    /\ dropIdx >= 2
    /\ threadPc[workers[dropIdx].id] # "exited"

\* C14 (state part): the mutex is never poisoned; a failed task was invoked
\* once, is not in the buffer again, and the worker that invoked it has
\* ended by that panic; every failure has cost exactly one worker, and the
\* pool holds no more workers or threads than it was created with.
C14_FailureKillsWorker ==
    /\ ~poisoned
    /\ \A t \in Tasks :
          status[t] = "failed" =>
              /\ runs[t] = 1
              /\ \A n \in DOMAIN queue : queue[n] # t
              /\ Cardinality(ranBy[t]) = 1
              /\ \A i \in ranBy[t] : threadPc[i] = "panicked"
    /\ Cardinality({i \in Ids : threadPc[i] = "panicked"})
          = Cardinality({t \in Tasks : status[t] = "failed"})
    /\ Len(workers) <= size
    /\ \A i \in Spawned : i < size

\* C14: the state part holds always, and the step in which a task fails
\* ends the thread of the worker running it and nothing else: the number of
\* live workers drops by one, the other threads and the guard are untouched.
C14_NoReplacement ==
    /\ []C14_FailureKillsWorker
    /\ [][\A t \in Tasks :
             (status[t] # "failed" /\ status'[t] = "failed") =>
                 /\ Cardinality(LiveWorkers') = Cardinality(LiveWorkers) - 1
                 /\ \A j \in Ids : j \notin ranBy[t] => threadPc'[j] = threadPc[j]
                 /\ lockHolders' = lockHolders
                 /\ workers' = workers
         ]_vars

\* A task has failed in one worker and a later task has been run to its end
\* by the other, which is alive.
C14_Witness ==
    \E t1, t2 \in Tasks :
        /\ t1 < t2
        /\ status[t1] = "failed"
        /\ status[t2] = "done"
        /\ \E j \in ranBy[t2] : Live(threadPc[j])

\* C15 (state part): every thread of the pool is in its loop or has ended.
C15_LoopOrEnded ==
    newPc = "returned" =>
        \A i \in Ids : i < size => (Live(threadPc[i]) \/ Ended(threadPc[i]))

\* C15: the state part holds always, and the end of a thread is absorbing:
\* an ended thread stays ended, never receives a message and is never the
\* one invoking a task; so, from the return of new on, the set of live
\* worker threads only shrinks.
C15_ExitAbsorbing ==
    /\ []C15_LoopOrEnded
    /\ [][ /\ \A i \in Ids :
                 Ended(threadPc[i]) =>
                     /\ threadPc'[i] = threadPc[i]
                     /\ message'[i] = message[i]
                     /\ \A t \in Tasks : i \in ranBy'[t] => i \in ranBy[t]
           /\ newPc = "returned" =>
                 /\ LiveWorkers' \subseteq LiveWorkers
                 /\ Cardinality(LiveWorkers') <= Cardinality(LiveWorkers)
         ]_vars

\* A worker thread has ended while a job is in the buffer and another
\* worker is alive.
C15_Witness ==
    /\ \E i \in Ids : Ended(threadPc[i])
    /\ queue # <<>>
    /\ LiveWorkers # {}

\* A call of execute with some closure.
Submit == \E k \in Kinds : Execute(k)

\* C16: while the pool is Active a call of execute never waits: it can take
\* its step in every state, however many jobs are in the buffer, whether or
\* not every worker is running a job and whether or not a worker holds the
\* guard; and as long as the receiver exists that step appends the job to
\* the buffer, which has no capacity bound.  (MaxTasks bounds the number of
\* submissions of the model, not the buffer.)
C16_SubmitNeverWaits ==
    (PoolAlive /\ Len(kindOf) < MaxTasks) =>
        /\ ENABLED Submit
        /\ receiver = "alive" =>
              ENABLED (Submit /\ queue' = Append(queue, Len(kindOf) + 1))

\* Every worker of the Active pool is running a job while another job is
\* in the buffer.
C16_Witness ==
    /\ PoolAlive
    /\ Spawned # {}
    /\ \A i \in Spawned : threadPc[i] = "run"
    /\ queue # <<>>
    /\ lastExec = "ok"

\* C17: a worker that has received a job, and so one that is running it,
\* does not hold the guard of the receiver; the guard is only held by a
\* worker waiting in recv, which holds no job.
C17_NoLockWhileRunning ==
    /\ \A i \in Ids : threadPc[i] \in {"match", "run"} => i \notin lockHolders
    /\ \A i \in lockHolders : message[i].tag = "None"

\* All N workers of a pool of at least two are running a job at once.
C17_Witness ==
    /\ size >= 2
    /\ \A i \in Ids : i < size => threadPc[i] = "run"
    /\ lockHolders = {}

\* A task has completed while a task submitted before it is still running.
LaterFinishedFirst ==
    \E t1, t2 \in Tasks : t1 < t2 /\ status[t1] = "running" /\ status[t2] = "done"

\* Task t has been handed to a worker by recv.
Dequeued(t) == t \in Tasks /\ status[t] \in {"received", "running", "done", "failed"}

\* Some live worker is not holding a job.
SomeIdle == \E i \in Ids : Idle(i)

\* No submitted closure panics.
NoTaskFails == \A t \in Tasks : kindOf[t] # "fail"

\* C18 as stated, for the tasks it speaks of (closures that return or run
\* forever, none that panics): under fair scheduling every task that is
\* queued while some live worker is idle is eventually dequeued.
C18_EveryQueuedDequeued ==
    \A t \in 1 .. MaxTasks :
        (t \in Tasks /\ status[t] = "queued" /\ SomeIdle /\ NoTaskFails)
            ~> (Dequeued(t) \/ ~NoTaskFails)

\* C18 (state part): no deadlock: when a job is in the buffer and a live
\* worker is idle, some worker thread can take a step.
C18_NoDeadlock ==
    (queue # <<>> /\ SomeIdle) => ENABLED (\E i \in Ids : Worker(i))

\* C18, amended: under fair scheduling the oldest job of the buffer is
\* eventually dequeued whenever some live worker is idle, even if the jobs
\* running on the other workers never return; and the state part holds
\* always.
C18_HeadDequeued ==
    /\ []C18_NoDeadlock
    /\ \A t \in 1 .. MaxTasks :
          (queue # <<>> /\ Head(queue) = t /\ SomeIdle) ~> Dequeued(t)

\* A worker runs a job that never returns and a job submitted after it has
\* been dequeued by another worker.
C18_Witness ==
    \E t1, t2 \in Tasks :
        /\ t1 < t2
        /\ kindOf[t1] = "hang"
        /\ status[t1] = "running"
        /\ Dequeued(t2)

\* The workers' indices whose thread has ended by a panic.
PanickedAt == {n \in DOMAIN workers : threadPc[workers[n].id] = "panicked"}

\* Drop::drop has ended, by returning or by panicking.
DropEnded == dropPc \in {"returned", "panicked"}

\* C19 as stated: for every worker i whose thread ended by a task's panic,
\* teardown ends by panicking at the join of worker i, the workers below i
\* joined and those above i not.
C19_FailsAtEachFailedWorker ==
    \A n \in PanickedAt :
        DropEnded =>
            /\ dropPc = "panicked"
            /\ dropIdx = n
            /\ \A m \in DOMAIN workers : m < n => threadPc[workers[m].id] = "exited"

\* C19 (state part), amended: teardown does not return normally when a
\* worker has panicked; when it has ended by a panic, that was at the join
\* of the lowest-id panicked worker: the workers below it have been joined,
\* its handle is taken, the workers above it keep their handles.
C19_FirstFailedWorker ==
    /\ DropReturned => PanickedAt = {}
    /\ dropPc = "panicked" =>
          /\ dropIdx \in PanickedAt
          /\ \A n \in PanickedAt : dropIdx <= n
          /\ workers[dropIdx].thread = "None"
          /\ \A n \in DOMAIN workers :
                /\ n < dropIdx =>
                      (workers[n].thread = "None" /\ threadPc[workers[n].id] = "exited")
                /\ n > dropIdx => workers[n].thread = "Some"
    /\ (DropEnded /\ PanickedAt # {}) => dropPc = "panicked"

\* C19, amended: the state part holds always; a teardown that has panicked
\* joins no further worker; and under fair scheduling, when no task runs
\* forever, a teardown begun on a pool with a panicked worker does end by
\* that panic.
C19_TeardownFailsAtJoin ==
    /\ []C19_FirstFailedWorker
    /\ [][dropPc = "panicked" =>
             (dropPc' = "panicked" /\ dropIdx' = dropIdx /\ workers' = workers)]_vars
    /\ (dropPc # "idle" /\ PanickedAt # {} /\ AllTasksEnd) ~> (dropPc = "panicked")

\* Teardown has panicked at a join while two workers have panicked.
C19_Witness == dropPc = "panicked" /\ Cardinality(PanickedAt) >= 2

====
